---------------------------- MODULE Spec2Model ----------------------------
(***************************************************************************)
(* The cartridge codec of ZEPTO-8 (src/src/pico8/cart.cpp, memory.h).      *)
(*                                                                         *)
(* Representation.                                                         *)
(*  - A byte is an integer 0..255, a character is its code (char is an     *)
(*    integer type in the source, and the source compares characters by    *)
(*    range).  A text or a file content is a sequence of character codes.  *)
(*  - A byte array (struct memory, a std::vector<uint8_t>) is held sparse: *)
(*    a function whose DOMAIN is the set of indices that hold a non-zero   *)
(*    byte.  Rd reads an index; every index outside the domain reads 0.    *)
(*    memory is 0x8000 bytes at the offsets memory.h asserts.              *)
(*  - An image (the RGBA pixel array lodepng decodes) is held as its width, *)
(*    its height, the pixels px given one by one, and the two colours of   *)
(*    all the others: low below index split, high from split on.           *)
(***************************************************************************)
EXTENDS Integers, Sequences, FiniteSets, TLC

(***************************************************************************)
(* Integer arithmetic of the source                                        *)
(***************************************************************************)
Min(a, b) == IF a < b THEN a ELSE b

SetMax(S) == CHOOSE x \in S : \A y \in S : y <= x

SetMin(S) == CHOOSE x \in S : \A y \in S : x <= y

RECURSIVE BitAnd(_, _)
BitAnd(x, y) ==
    IF x = 0 \/ y = 0 THEN 0
    ELSE (x % 2) * (y % 2) + 2 * BitAnd(x \div 2, y \div 2)

RECURSIVE BitOr(_, _)
BitOr(x, y) ==
    IF x = 0 THEN y
    ELSE IF y = 0 THEN x
    ELSE (IF x % 2 = 1 \/ y % 2 = 1 THEN 1 ELSE 0) + 2 * BitOr(x \div 2, y \div 2)

\* x << k and x >> k on non-negative int values
Shl(x, k) == x * 2 ^ k

Shr(x, k) == x \div 2 ^ k

\* conversion to uint8_t
U8(x) == x % 256

Bit(x, k) == (x \div 2 ^ k) % 2

(***************************************************************************)
(* Sparse byte arrays                                                      *)
(***************************************************************************)
Zeroed == [a \in {} |-> 0]

Rd(m, a) == IF a \in DOMAIN m THEN m[a] ELSE 0

\* the array that holds f's bytes: the zero entries are dropped
Pack(f) == LET nz == {a \in DOMAIN f : f[a] # 0} IN [a \in nz |-> f[a]]

(***************************************************************************)
(* struct memory: offsets and sizes (memory.h static_check_section)        *)
(***************************************************************************)
SizeofMemory == 32768       \* 0x8000

OffGfx == 0

SizeofGfx == 8192           \* 0x2000

OffMap2 == 4096             \* 0x1000

SizeofMap2 == 4096

OffMap == 8192              \* 0x2000

SizeofMap == 4096

OffGfxProps == 12288        \* 0x3000

SizeofGfxProps == 256

OffSong == 12544            \* 0x3100

SizeofSong == 256

SizeofSongT == 4

OffSfx == 12800             \* 0x3200

SizeofSfx == 4352           \* 0x1100

SizeofSfxT == 68

OffCode == 17152            \* 0x4300

SizeofCodeT == 15616        \* 0x3d00, code_t

Addr == 0..(SizeofMemory - 1)


(***************************************************************************)
(* Collaborators defined outside cart.cpp and memory.h                     *)
(***************************************************************************)
\* pico8.h: PICO8_VERSION, the version written by save_p8 and get_bin
PICO8_VERSION == 18

\* pico8.h: the label rectangle inside the cartridge image.  The values are
\* not part of cart.cpp; the model is parametric in them.
LABEL_WIDTH == 2

LABEL_HEIGHT == 2

LABEL_X == 1

LABEL_Y == 1

\* charset::utf8_to_pico8 and charset::pico8_to_utf8: the remapping table
\* changes only the characters above 7-bit ASCII; the texts of the model are
\* ASCII, which it maps to itself.
utf8_to_pico8(str) == str

pico8_to_utf8(str) == str

\* code::compress: the stored form of a script text.  The raw form of the
\* cartridge format: the text's bytes, ended by the first zero byte.
compress(code) == code

\* code::decompress(m_rom.code().data()): the bytes of the code region up to
\* the first zero byte or the end of code_t.
decompress(rom) ==
    LET D    == {a \in DOMAIN rom : a >= OffCode /\ a < OffCode + SizeofCodeT}
        ends == {a \in D : a + 1 \notin D}
        n    == IF OffCode \notin D THEN 0 ELSE SetMin(ends) + 1 - OffCode
    IN [i \in 1..n |-> rom[OffCode + i - 1]]

\* palette::get8(col): the colour of palette entry col, as (r, g, b, a)
palette_get8(col) == <<8 * col, 255 - 8 * col, 4 * col, 255>>

Abs(x) == IF x < 0 THEN -x ELSE x

ColorDistance(p, q) == Abs(p[1] - q[1]) + Abs(p[2] - q[2]) + Abs(p[3] - q[3])

\* palette::best(p, count): the palette entry nearest to pixel p
palette_best(p, count) ==
    CHOOSE c \in 0..(count - 1) :
        \A d \in 0..(count - 1) :
            \/ ColorDistance(palette_get8(c), p) < ColorDistance(palette_get8(d), p)
            \/ ColorDistance(palette_get8(c), p) = ColorDistance(palette_get8(d), p) /\ c <= d

\* song_t::sfx(n): the sound-effect index of channel n, the low 7 bits of
\* data[n].  data is the 4 bytes of the entry, data[1] the first.
song_sfx(data, n) == BitAnd(data[n + 1], 127)

(***************************************************************************)
(* The cartridge: class cart's members                                     *)
(***************************************************************************)
Cart(rom, code, label, lua) == [rom |-> rom, code |-> code, label |-> label, lua |-> lua]

\* a cart after construction
EmptyCart == Cart(Zeroed, <<>>, <<>>, <<>>)

(***************************************************************************)
(* cart::set_bin and cart::get_bin                                         *)
(***************************************************************************)
\* bytes: a vector of sizeof(m_rom) + 5 bytes, sparse.  The label is kept.
set_bin(c, bytes) ==
    LET rom == [a \in {x \in DOMAIN bytes : x < SizeofMemory} |-> bytes[a]]
    IN Cart(rom, decompress(rom), c.label, <<>>)

\* the vector get_bin returns: its size and its bytes
get_bin(c) ==
    LET data_size  == OffCode
        compressed == compress(c.code)
        \* ret.insert(ret.end(), ...); ret.resize(sizeof(memory))
        kept       == Min(Len(compressed), SizeofMemory - data_size)
        data       == [a \in {x \in DOMAIN c.rom : x < data_size} |-> c.rom[a]]
        codeat     == {data_size + i - 1 : i \in {j \in 1..kept : compressed[j] # 0}}
    IN [size |-> SizeofMemory + 1,
        at   |-> [a \in DOMAIN data \cup codeat \cup {SizeofMemory} |->
                    IF a = SizeofMemory THEN PICO8_VERSION
                    ELSE IF a < data_size THEN data[a]
                    ELSE compressed[a - data_size + 1]]]

(***************************************************************************)
(* Characters and strings                                                  *)
(***************************************************************************)
\* the character at position i of str (1-based); the terminating NUL of the
\* std::string at the position after the last
At(str, i) == IF i >= 1 /\ i <= Len(str) THEN str[i] ELSE 0

\* whether str holds lit at position i
HasAt(str, i, lit) ==
    /\ i + Len(lit) - 1 <= Len(str)
    /\ \A k \in 1..Len(lit) : str[i + k - 1] = lit[k]

\* std::string::find(lit) != npos
Contains(str, lit) == \E i \in 1..(Len(str) - Len(lit) + 1) : HasAt(str, i, lit)

\* the position of the first line feed at or after i; 0 when there is none
FindLf(str, i) ==
    LET P == {p \in i..Len(str) : str[p] = 10}
    IN IF P = {} THEN 0 ELSE SetMin(P)

\* s.c_str() handed to a std::string: the characters before the first NUL
c_str(str) ==
    LET Z == {p \in 1..Len(str) : str[p] = 0}
    IN IF Z = {} THEN str ELSE SubSeq(str, 1, SetMin(Z) - 1)

IsDigit(ch) == ch >= 48 /\ ch <= 57                      \* '0'..'9'

IsAlnum(ch) ==
    \/ ch >= 97 /\ ch <= 122                              \* 'a'..'z'
    \/ ch >= 65 /\ ch <= 90                               \* 'A'..'Z'
    \/ IsDigit(ch)

\* isspace
IsSpace(ch) == ch = 32 \/ (ch >= 9 /\ ch <= 13)

\* the value of a hexadecimal digit; -1 for any other character
HexValue(ch) ==
    IF ch >= 48 /\ ch <= 57 THEN ch - 48
    ELSE IF ch >= 97 /\ ch <= 102 THEN ch - 97 + 10
    ELSE IF ch >= 65 /\ ch <= 70 THEN ch - 65 + 10
    ELSE -1

\* (uint8_t)strtoul(str, nullptr, 16) for the 2-character string {c0, c1, 0}:
\* white space is skipped, a sign is accepted, then the longest run of
\* hexadecimal digits is converted; no digit converts to 0.  ("0x" converts
\* its "0".)
strtoul16(c0, c1) ==
    IF c0 = 0 THEN 0
    ELSE IF HexValue(c0) >= 0
         THEN IF HexValue(c1) >= 0 THEN 16 * HexValue(c0) + HexValue(c1)
              ELSE HexValue(c0)
    ELSE IF IsSpace(c0) \/ c0 = 43                        \* '+'
         THEN IF HexValue(c1) >= 0 THEN HexValue(c1) ELSE 0
    ELSE IF c0 = 45                                       \* '-'
         THEN IF HexValue(c1) >= 0 THEN U8(256 - HexValue(c1)) ELSE 0
    ELSE 0

\* "0123456789abcdef"[v]
HexDigit(v) == IF v < 10 THEN 48 + v ELSE 97 + v - 10

\* lol::format("%02x", v) for v in 0..255
Format02x(v) == <<HexDigit(v \div 16), HexDigit(v % 16)>>

\* lol::format("%1x", v) for v in 0..15
Format1x(v) == <<HexDigit(v)>>

RECURSIVE FormatDec(_)
\* lol::format("%d", v) for v >= 0
FormatDec(v) == IF v < 10 THEN <<48 + v>> ELSE Append(FormatDec(v \div 10), 48 + (v % 10))

RECURSIVE Atoi(_, _)
\* std::atoi of a string of digits: Atoi(str, 0)
Atoi(str, acc) == IF str = <<>> THEN acc ELSE Atoi(Tail(str), 10 * acc + (Head(str) - 48))

RECURSIVE Concat(_)
\* the concatenation of a sequence of strings, as that of its two halves
Concat(strs) ==
    IF strs = <<>> THEN <<>>
    ELSE IF Len(strs) = 1 THEN strs[1]
    ELSE Concat(SubSeq(strs, 1, Len(strs) \div 2))
         \o Concat(SubSeq(strs, Len(strs) \div 2 + 1, Len(strs)))

(***************************************************************************)
(* p8_reader: the grammar                                                  *)
(***************************************************************************)
StrHeader == <<112, 105, 99, 111, 45, 56, 32, 99, 97, 114, 116, 114, 105, 100, 103, 101>>   \* "pico-8 cartridge"

StrVersion == <<118, 101, 114, 115, 105, 111, 110, 32>>           \* "version "

StrLua == <<95, 95, 108, 117, 97, 95, 95>>

StrGfx == <<95, 95, 103, 102, 120, 95, 95>>

StrGff == <<95, 95, 103, 102, 102, 95, 95>>

StrMap == <<95, 95, 109, 97, 112, 95, 95>>

StrSfx == <<95, 95, 115, 102, 120, 95, 95>>

StrMus == <<95, 95, 109, 117, 115, 105, 99, 95, 95>>

StrLab == <<95, 95, 108, 97, 98, 101, 108, 95, 95>>

\* r_lua .. r_lab, in the order of r_section_name's sor
SectionLiterals == <<StrLua, StrGfx, StrGff, StrMap, StrSfx, StrMus, StrLab>>

\* r_any at position i: two '_', one or more alnum, two '_'.  The position
\* after the match; 0 when it does not match.
MatchAny(str, i) ==
    IF ~(At(str, i) = 95 /\ At(str, i + 1) = 95) THEN 0
    ELSE LET stop == SetMin({p \in (i + 2)..(Len(str) + 1) : ~IsAlnum(At(str, p))})
         IN IF stop > i + 2 /\ At(str, stop) = 95 /\ At(str, stop + 1) = 95
            THEN stop + 2 ELSE 0

\* r_section_name at position i: the first alternative that matches decides.
\* The position after the match; 0 when none matches.
MatchSectionName(str, i) ==
    LET L == {k \in 1..Len(SectionLiterals) : HasAt(str, i, SectionLiterals[k])}
    IN IF L # {} THEN i + Len(SectionLiterals[SetMin(L)])
       ELSE MatchAny(str, i)

\* pegtl::eolf at position i: the position after it; 0 when it does not match
MatchEolf(str, i) ==
    IF i > Len(str) THEN i
    ELSE IF str[i] = 10 THEN i + 1
    ELSE IF str[i] = 13 /\ At(str, i + 1) = 10 THEN i + 2
    ELSE 0

\* r_section_line at position i: the position after it; 0 when no match
MatchSectionLine(str, i) ==
    LET e == MatchSectionName(str, i)
    IN IF e = 0 THEN 0 ELSE MatchEolf(str, e)

\* r_header at position i: the "pico-8 cartridge" line and the "version "
\* line.  version is what action<r_version> has stored by the time the rule
\* ends (-1: never applied); body is the position after the header, 0 when
\* r_header fails.
MatchHeader(str, i) ==
    LET eol1 == FindLf(str, i + Len(StrHeader))
        v    == eol1 + 1 + Len(StrVersion)
        stop == SetMin({p \in v..(Len(str) + 1) : ~IsDigit(At(str, p))})
        eol2 == FindLf(str, stop)
    IN IF ~HasAt(str, i, StrHeader) \/ eol1 = 0 \/ ~HasAt(str, eol1 + 1, StrVersion)
       THEN [version |-> -1, body |-> 0]
       ELSE [version |-> Atoi(SubSeq(str, v, stop - 1), 0),
             body    |-> IF eol2 = 0 THEN 0 ELSE eol2 + 1]

\* the positions at which a line of str starts, from position i on
LineStarts(str, i) ==
    IF i > Len(str) THEN {}
    ELSE {i} \cup {p + 1 : p \in {q \in i..(Len(str) - 1) : str[q] = 10}}

(***************************************************************************)
(* p8_reader: the actions and the parser state                             *)
(***************************************************************************)
\* enum class section
Sections == {"error", "header", "lua", "gfx", "gff", "map", "sfx", "mus", "lab"}

\* the keys of m_sections: action<r_data> stores under every section but lua
SectionKeys == Sections \ {"lua"}

\* action<r_section_name>: the section a marker selects, by the first tag its
\* text contains
SectionOfName(name) ==
    IF Contains(name, <<108, 117, 97>>) THEN "lua"                    \* "lua"
    ELSE IF Contains(name, <<103, 102, 120>>) THEN "gfx"              \* "gfx"
    ELSE IF Contains(name, <<103, 102, 102>>) THEN "gff"              \* "gff"
    ELSE IF Contains(name, <<109, 97, 112>>) THEN "map"               \* "map"
    ELSE IF Contains(name, <<115, 102, 120>>) THEN "sfx"              \* "sfx"
    ELSE IF Contains(name, <<109, 117, 115, 105, 99>>) THEN "mus"     \* "music"
    ELSE IF Contains(name, <<108, 97, 98, 101, 108>>) THEN "lab"      \* "label"
    ELSE "error"

\* std::regex_replace(str, std::regex("\r\n"), "\n")
CrlfToLf(str) ==
    LET R == {i \in 1..(Len(str) - 1) : str[i] = 13 /\ str[i + 1] = 10}
    IN IF R = {} THEN str
       ELSE LET K == (1..Len(str)) \ R
            IN [j \in 1..Cardinality(K) |->
                  str[CHOOSE i \in K : i - Cardinality({r \in R : r < i}) = j]]

\* the decoded value of a label character; -1 when it is none
Base32Value(ch) ==
    IF ch >= 48 /\ ch <= 57 THEN ch - 48
    ELSE IF ch >= 97 /\ ch <= 118 THEN ch - 97 + 10                   \* 'a'..'v'
    ELSE IF ch >= 65 /\ ch <= 86 THEN ch - 65 + 10                    \* 'A'..'V'
    ELSE -1

\* the is_base32 branch of action<r_data>'s loop
DecodeBase32(str) ==
    LET kept == SelectSeq(str, LAMBDA ch : Base32Value(ch) >= 0)
    IN [i \in 1..Len(kept) |-> Base32Value(kept[i])]

RECURSIVE DecodeRange(_, _, _, _)
\* The hexadecimal branch of action<r_data>'s loop, run while the cursor
\* (parser) is in lo..hi-1: the bytes pushed and the cursor at the end.  A
\* range of more than one position is run as its two halves in sequence, the
\* second from where the first leaves the cursor.
DecodeRange(str, lo, hi, is_swapped) ==
    IF lo >= hi THEN [bytes |-> <<>>, next |-> lo]
    ELSE IF hi = lo + 1
         THEN IF HexValue(str[lo]) >= 0
              THEN [bytes |-> <<strtoul16(At(str, IF is_swapped THEN lo + 1 ELSE lo),
                                          At(str, IF is_swapped THEN lo ELSE lo + 1))>>,
                    next  |-> lo + 2]
              ELSE [bytes |-> <<>>, next |-> lo + 1]
    ELSE LET mid   == (lo + hi) \div 2
             left  == DecodeRange(str, lo, mid, is_swapped)
             right == DecodeRange(str, left.next, hi, is_swapped)
         IN [bytes |-> left.bytes \o right.bytes, next |-> right.next]

\* the bytes the loop pushes for the data str: parser from in.begin() to
\* in.end()
DecodeHex(str, is_swapped) == DecodeRange(str, 1, Len(str) + 1, is_swapped).bytes

\* a p8_reader before parse
NewReader(sec0) ==
    [m_version         |-> -1,
     m_current_section |-> sec0,
     m_sections        |-> [k \in SectionKeys |-> <<>>],
     m_code            |-> <<>>]

\* action<r_data>::apply on the matched data str
ApplyData(r, str) ==
    IF r.m_current_section = "lua"
    THEN [r EXCEPT !.m_code = @ \o CrlfToLf(str)]
    ELSE LET is_swapped == r.m_current_section = "gfx"
             is_base32  == r.m_current_section = "lab"
             decoded    == IF is_base32 THEN DecodeBase32(str)
                           ELSE DecodeHex(str, is_swapped)
         IN [r EXCEPT !.m_sections[r.m_current_section] = @ \o decoded]

\* an action that leaves the current section as it is at a marker with no tag
ApplySectionName_keeps_section(r, name) ==
    IF SectionOfName(name) = "error" THEN r
    ELSE [r EXCEPT !.m_current_section = SectionOfName(name)]

\* action<r_section_name>::apply on the matched marker text
ApplySectionName(r, name) == [r EXCEPT !.m_current_section = SectionOfName(name)]

RECURSIVE ParseSections(_, _, _)
\* pegtl::star<r_section> from position i, a section line: the marker, then
\* its data up to the next section line or the end of the input
ParseSections(r, str, i) ==
    IF i > Len(str) THEN r
    ELSE LET name_end == MatchSectionName(str, i)
             data     == MatchSectionLine(str, i)
             M        == {b \in LineStarts(str, data) : MatchSectionLine(str, b) # 0}
             stop     == IF M = {} THEN Len(str) + 1 ELSE SetMin(M)
             r1       == ApplySectionName(r, SubSeq(str, i, name_end - 1))
             r2       == ApplyData(r1, SubSeq(str, data, stop - 1))
         IN ParseSections(r2, str, stop)

\* p8_reader::parse: r_file on str.  sec0 is the value m_current_section holds
\* when the data before the first section is decoded; the member has no
\* initialiser, so it is any value of the type.
Parse(str, sec0) ==
    LET bom   == IF HasAt(str, 1, <<239, 187, 191>>) THEN 4 ELSE 1
        h     == MatchHeader(str, bom)
        r0    == [NewReader(sec0) EXCEPT !.m_version = h.version]
        M     == {b \in LineStarts(str, h.body) : MatchSectionLine(str, b) # 0}
        stop  == IF M = {} THEN Len(str) + 1 ELSE SetMin(M)
    IN IF h.body = 0 THEN r0
       ELSE ParseSections(ApplyData(r0, SubSeq(str, h.body, stop - 1)), str, stop)

(***************************************************************************)
(* Writing and reading the bytes of struct memory                          *)
(***************************************************************************)
\* rom with the bytes f (a function on addresses) written over it
Store(rom, f) ==
    Pack([a \in DOMAIN rom \cup DOMAIN f |-> IF a \in DOMAIN f THEN f[a] ELSE rom[a]])

\* memcpy((uint8_t *)&m_rom + off, buf.data(), n), n <= buf.size()
Memcpy(rom, off, buf, n) == Store(rom, [a \in off..(off + n - 1) |-> buf[a - off + 1]])

\* the n bytes of rom from address off, as a sequence
Bytes(rom, off, n) == [k \in 1..n |-> Rd(rom, off + k - 1)]

\* the addresses in off..off+n-1 that hold a non-zero byte
NonZero(rom, off, n) == {a \in DOMAIN rom : a >= off /\ a < off + n}

(***************************************************************************)
(* cart::load_p8                                                           *)
(***************************************************************************)
\* a song decoder that takes the flags from bits 7, 6, 5, 4 of the first byte
LoadSong_high_bits(mus, i) ==
    << BitOr(mus[i * 5 + 1 + 1], BitAnd(Shl(mus[i * 5 + 1], 0), 128)),
       BitOr(mus[i * 5 + 2 + 1], BitAnd(Shl(mus[i * 5 + 1], 1), 128)),
       BitOr(mus[i * 5 + 3 + 1], BitAnd(Shl(mus[i * 5 + 1], 2), 128)),
       BitOr(mus[i * 5 + 4 + 1], BitAnd(Shl(mus[i * 5 + 1], 3), 128)) >>

\* m_rom.song[i].data[0..3] from the music buffer mus (lines 429-432)
LoadSong(mus, i) ==
    << BitOr(mus[i * 5 + 1 + 1], BitAnd(Shl(mus[i * 5 + 1], 7), 128)),
       BitOr(mus[i * 5 + 2 + 1], BitAnd(Shl(mus[i * 5 + 1], 6), 128)),
       BitOr(mus[i * 5 + 3 + 1], BitAnd(Shl(mus[i * 5 + 1], 5), 128)),
       BitOr(mus[i * 5 + 4 + 1], BitAnd(Shl(mus[i * 5 + 1], 4), 128)) >>

\* note_t as its 16-bit value: key in bits 0-5, instrument in bits 6-8,
\* volume in bits 9-11, effect in bits 12-15 (the layout save_p8 reads back
\* byte by byte)
NoteT(key, instrument, volume, effect) == key + 64 * instrument + 512 * volume + 4096 * effect

\* a note decoder that shifts the window of every note, odd ones too
LoadNote_unaligned(sfx, i, j) ==
    LET base == 4 + i * (4 + 80) + (j * 5) \div 2
        w    == BitOr(BitOr(Shl(sfx[base + 0 + 1], 16), Shl(sfx[base + 1 + 1], 8)),
                      sfx[base + 2 + 1])
        ins  == Shr(w, 4)
    IN [key        |-> Shr(BitAnd(ins, 258048), 12),
        instrument |-> Shr(BitAnd(ins, 1792), 8),
        volume     |-> Shr(BitAnd(ins, 112), 4),
        effect     |-> BitAnd(ins, 15)]

\* the fields of note j of sfx entry i from the sfx buffer (lines 443-452)
LoadNote(sfx, i, j) ==
    LET base == 4 + i * (4 + 80) + (j * 5) \div 2
        w    == BitOr(BitOr(Shl(sfx[base + 0 + 1], 16), Shl(sfx[base + 1 + 1], 8)),
                      sfx[base + 2 + 1])
        ins  == IF BitAnd(j, 1) # 0 THEN BitAnd(w, 1048575) ELSE Shr(w, 4)
    IN [key        |-> Shr(BitAnd(ins, 258048), 12),             \* 0x3f000
        instrument |-> Shr(BitAnd(ins, 1792), 8),                \* 0x700
        volume     |-> Shr(BitAnd(ins, 112), 4),                 \* 0x70
        effect     |-> BitAnd(ins, 15)]

\* the 68 bytes of m_rom.sfx[i] from the sfx buffer (lines 438-459)
LoadSfx(sfx, i) ==
    [k \in 1..SizeofSfxT |->
        IF k <= 64
        THEN LET n == LoadNote(sfx, i, (k - 1) \div 2)
                 v == NoteT(n.key, n.instrument, n.volume, n.effect)
             IN IF (k - 1) % 2 = 0 THEN v % 256 ELSE v \div 256
        ELSE sfx[i * (4 + (32 * 5) \div 2) + (k - 65) + 1]]

\* a load that copies the second map block over the bytes the gfx buffer left
LoadRom_map_overwrites(sections) ==
    LET gfx == sections["gfx"]
        gff == sections["gff"]
        map == sections["map"]
        sfx == sections["sfx"]
        mus == sections["mus"]
        rom1 == Memcpy(Zeroed, OffGfx, gfx, Min(SizeofGfx, Len(gfx)))
        rom2 == Memcpy(rom1, OffGfxProps, gff, Min(SizeofGfxProps, Len(gff)))
        rom3 == Memcpy(rom2, OffMap, map, Min(SizeofMap, Len(map)))
        map2_count == Min(SizeofMap2, Len(map) - SizeofMap)
        rom4 == IF Len(map) > SizeofMap
                THEN Store(rom3, [a \in OffMap2..(OffMap2 + map2_count - 1) |->
                                    map[SizeofMap + (a - OffMap2) + 1]])
                ELSE rom3
        song_count == Min(SizeofSong \div 4, Len(mus) \div 5)
        rom5 == Store(rom4, [a \in OffSong..(OffSong + SizeofSongT * song_count - 1) |->
                               LoadSong(mus, (a - OffSong) \div SizeofSongT)
                                       [((a - OffSong) % SizeofSongT) + 1]])
        sfx_count == Min(SizeofSfx \div (4 + 32 * 2), Len(sfx) \div (4 + (32 * 5) \div 2))
    IN Store(rom5, [a \in OffSfx..(OffSfx + SizeofSfxT * sfx_count - 1) |->
                      LoadSfx(sfx, (a - OffSfx) \div SizeofSfxT)
                             [((a - OffSfx) % SizeofSfxT) + 1]])

\* the body of load_p8 after the version test: m_rom from the section buffers
LoadRom(sections) ==
    LET gfx == sections["gfx"]
        gff == sections["gff"]
        map == sections["map"]
        sfx == sections["sfx"]
        mus == sections["mus"]
        rom1 == Memcpy(Zeroed, OffGfx, gfx, Min(SizeofGfx, Len(gfx)))
        rom2 == Memcpy(rom1, OffGfxProps, gff, Min(SizeofGfxProps, Len(gff)))
        rom3 == Memcpy(rom2, OffMap, map, Min(SizeofMap, Len(map)))
        map2_count == Min(SizeofMap2, Len(map) - SizeofMap)
        rom4 == IF Len(map) > SizeofMap
                THEN Store(rom3, [a \in OffMap2..(OffMap2 + map2_count - 1) |->
                                    BitOr(Rd(rom3, a), map[SizeofMap + (a - OffMap2) + 1])])
                ELSE rom3
        song_count == Min(SizeofSong \div 4, Len(mus) \div 5)
        rom5 == Store(rom4, [a \in OffSong..(OffSong + SizeofSongT * song_count - 1) |->
                               LoadSong(mus, (a - OffSong) \div SizeofSongT)
                                       [((a - OffSong) % SizeofSongT) + 1]])
        sfx_count == Min(SizeofSfx \div (4 + 32 * 2), Len(sfx) \div (4 + (32 * 5) \div 2))
    IN Store(rom5, [a \in OffSfx..(OffSfx + SizeofSfxT * sfx_count - 1) |->
                      LoadSfx(sfx, (a - OffSfx) \div SizeofSfxT)
                             [((a - OffSfx) % SizeofSfxT) + 1]])

\* a file as a load function reads it: NoFile when the read (lol::file::read,
\* lodepng::decode) fails, else File(data) with the content read
NoFile == [readable |-> FALSE]

File(data) == [readable |-> TRUE, data |-> data]

\* a load_p8 that tests the version only after it has written the cart
load_p8_commit_first(c, file, sec0) ==
    IF ~file.readable THEN [ok |-> FALSE, cart |-> c]
    ELSE LET reader == Parse(c_str(file.data), sec0)
             lab    == reader.m_sections["lab"]
         IN [ok   |-> reader.m_version >= 0,
             cart |-> Cart(LoadRom(reader.m_sections),
                           utf8_to_pico8(reader.m_code),
                           SubSeq(lab, 1, Min(Len(lab), LABEL_WIDTH * LABEL_HEIGHT)),
                           <<>>)]

\* load_p8 on cart c: the value returned and the cart it leaves
load_p8(c, file, sec0) ==
    IF ~file.readable THEN [ok |-> FALSE, cart |-> c]
    ELSE LET reader == Parse(c_str(file.data), sec0)
             lab    == reader.m_sections["lab"]
         IN IF reader.m_version < 0 THEN [ok |-> FALSE, cart |-> c]
            ELSE [ok   |-> TRUE,
                  cart |-> Cart(LoadRom(reader.m_sections),
                                utf8_to_pico8(reader.m_code),
                                SubSeq(lab, 1, Min(Len(lab), LABEL_WIDTH * LABEL_HEIGHT)),
                                <<>>)]

(***************************************************************************)
(* cart::save_p8                                                           *)
(***************************************************************************)
\* "pico-8 cartridge // http://www.pico-8.com\n"
StrFirstLine ==
    <<112, 105, 99, 111, 45, 56, 32, 99, 97, 114, 116, 114, 105, 100, 103, 101, 32, 47, 47, 32, 104, 116, 116, 112, 58, 47, 47, 119, 119, 119, 46, 112, 105, 99, 111, 45, 56, 46, 99, 111, 109, 10>>

\* "%02x" of each byte of data, then '\n'
HexLine(data) ==
    [k \in 1..(2 * Len(data) + 1) |->
        IF k = 2 * Len(data) + 1 THEN 10
        ELSE Format02x(data[(k + 1) \div 2])[2 - (k % 2)]]

\* a count of the lines that hold a non-zero byte
LineCount_nonzero_lines(rom, off, size, per) ==
    Cardinality({(a - off) \div per : a \in NonZero(rom, off, size)})

\* the number of lines to write for the region at off, of size bytes, each
\* line holding per bytes: 1 + the line of the last non-zero byte, 0 when
\* every byte is zero (the scanning loops of lines 557-560, 588-591, ...)
LineCount(rom, off, size, per) ==
    LET nz == NonZero(rom, off, size)
    IN IF nz = {} THEN 0 ELSE 1 + (SetMax(nz) - off) \div per

\* a section from the texts of its lines: the marker before line 0, then each
\* line; nothing when there is no line
SectionText(marker, texts) ==
    IF texts = <<>> THEN <<>>
    ELSE marker \o <<10>> \o Concat(texts)

\* a gfx line that writes each byte as it is, high nybble first
GfxLine_unswapped(rom, line) ==
    HexLine([i \in 1..64 |-> Rd(rom, OffGfx + 64 * line + i - 1)])

\* one line of the gfx section: uint8_t(b * 0x101 / 0x10) of each byte
GfxLine(rom, line) ==
    HexLine([i \in 1..64 |-> U8((Rd(rom, OffGfx + 64 * line + i - 1) * 257) \div 16)])

\* the label section (lines 574-585): written for a full label only
LabelText(label) ==
    IF Len(label) >= LABEL_WIDTH * LABEL_HEIGHT
    THEN StrLab \o <<10>>
         \o Concat([i \in 1..(LABEL_WIDTH * LABEL_HEIGHT) |->
                      LET col == label[i]
                          ch  == LET v == BitAnd(col, 31)
                                 IN IF v < 10 THEN 48 + v ELSE 97 + v - 10
                      IN IF i % LABEL_WIDTH = 0 THEN <<ch, 10>> ELSE <<ch>>])
         \o <<10>>
    ELSE <<>>

\* one line of the sfx section (lines 636-647): data is the 68 bytes of the
\* entry
SfxLine(rom, line) ==
    LET data == Bytes(rom, OffSfx + SizeofSfxT * line, SizeofSfxT)
        Note(j) ==
            LET pitch      == BitAnd(data[j + 1], 63)
                instrument == BitOr(BitAnd(Shl(data[j + 2], 2), 4), Shr(data[j + 1], 6))
                volume     == BitAnd(Shr(data[j + 2], 1), 7)
                effect     == BitAnd(Shr(data[j + 2], 4), 15)
            IN Format02x(pitch) \o Format1x(instrument) \o Format1x(volume)
               \o Format1x(effect)
    IN Format02x(data[65]) \o Format02x(data[66]) \o Format02x(data[67])
       \o Format02x(data[68])
       \o Concat([n \in 1..32 |-> Note(2 * (n - 1))])
       \o <<10>>

\* a music line whose flags value holds the flags in the opposite order
MusicLine_reversed(rom, line) ==
    LET data  == Bytes(rom, OffSong + SizeofSongT * line, SizeofSongT)
        start == Shr(data[1], 7)
        loop  == Shr(data[2], 7)
        stop  == Shr(data[3], 7)
        mode  == Shr(data[4], 7)
        flags == BitOr(BitOr(BitOr(mode, Shl(stop, 1)), Shl(loop, 2)), Shl(start, 3))
    IN Format02x(flags) \o <<32>>
       \o Format02x(song_sfx(data, 0)) \o Format02x(song_sfx(data, 1))
       \o Format02x(song_sfx(data, 2)) \o Format02x(song_sfx(data, 3))
       \o <<10>>

\* one line of the music section (lines 661-665): data is the 4 bytes of the
\* entry, whose bit 7 are the start, loop, stop and mode flags
MusicLine(rom, line) ==
    LET data  == Bytes(rom, OffSong + SizeofSongT * line, SizeofSongT)
        start == Shr(data[1], 7)
        loop  == Shr(data[2], 7)
        stop  == Shr(data[3], 7)
        mode  == Shr(data[4], 7)
        flags == BitOr(BitOr(BitOr(start, Shl(loop, 1)), Shl(stop, 2)), Shl(mode, 3))
    IN Format02x(flags) \o <<32>>
       \o Format02x(song_sfx(data, 0)) \o Format02x(song_sfx(data, 1))
       \o Format02x(song_sfx(data, 2)) \o Format02x(song_sfx(data, 3))
       \o <<10>>

\* the text save_p8 writes for cart c
save_p8(c) ==
    LET head == StrFirstLine \o StrVersion \o FormatDec(PICO8_VERSION) \o <<10>>
                \o StrLua \o <<10>> \o pico8_to_utf8(c.code)
        ret  == IF head[Len(head)] # 10 THEN head \o <<10>> ELSE head
        gfx_lines   == LineCount(c.rom, OffGfx, SizeofGfx, 64)
        gff_lines   == LineCount(c.rom, OffGfxProps, SizeofGfxProps, 128)
        map_lines   == LineCount(c.rom, OffMap, SizeofMap, 128)
        sfx_lines   == LineCount(c.rom, OffSfx, SizeofSfx, SizeofSfxT)
        music_lines == LineCount(c.rom, OffSong, SizeofSong, SizeofSongT)
    IN ret
       \o SectionText(StrGfx, [n \in 1..gfx_lines |-> GfxLine(c.rom, n - 1)])
       \o LabelText(c.label)
       \o SectionText(StrGff, [n \in 1..gff_lines |->
                                 HexLine(Bytes(c.rom, OffGfxProps + 128 * (n - 1), 128))])
       \o SectionText(StrMap, [n \in 1..map_lines |->
                                 HexLine(Bytes(c.rom, OffMap + 128 * (n - 1), 128))])
       \o SectionText(StrSfx, [n \in 1..sfx_lines |-> SfxLine(c.rom, n - 1)])
       \o SectionText(StrMus, [n \in 1..music_lines |-> MusicLine(c.rom, n - 1)])
       \o <<10>>

(***************************************************************************)
(* Images                                                                  *)
(***************************************************************************)
Image(width, height, split, low, high, px) ==
    [width |-> width, height |-> height, split |-> split, low |-> low, high |-> high,
     px |-> px]

\* pixels[n]
Pixel(img, n) ==
    IF n \in DOMAIN img.px THEN img.px[n]
    ELSE IF n < img.split THEN img.low
    ELSE img.high

\* one colour of data/blank.png
BlankPixel == <<90, 125, 39, 255>>

\* the image lodepng decodes from data/blank.png: 160 by 205 pixels
BlankImage == Image(160, 205, 0, BlankPixel, BlankPixel, [n \in {} |-> BlankPixel])

\* data/blank.png as save_png decodes it
BlankFile == File(BlankImage)

\* an encoder that adds the fields to the carrier's channels as they are
EmbedPixel_keeps_low_bits(p, b) ==
    << U8(p[1] + BitAnd(b, 48) \div 16),
       U8(p[2] + BitAnd(b, 12) \div 4),
       U8(p[3] + BitAnd(b, 3) \div 1),
       U8(p[4] + BitAnd(b, 192) \div 64) >>

\* lines 503-504: the pixel that carries byte b in carrier pixel p
\*   u8vec4 p(b & 0x30, b & 0x0c, b & 0x03, b & 0xc0);
\*   pixels[n] = pixels[n] / 4 * 4 + p / u8vec4(16, 4, 1, 64);
EmbedPixel(p, b) ==
    << U8((p[1] \div 4) * 4 + BitAnd(b, 48) \div 16),
       U8((p[2] \div 4) * 4 + BitAnd(b, 12) \div 4),
       U8((p[3] \div 4) * 4 + BitAnd(b, 3) \div 1),
       U8((p[4] \div 4) * 4 + BitAnd(b, 192) \div 64) >>

\* a decoder that takes the two high bits from the red channel and the next
\* two from alpha
DecodePixel_swapped(q) ==
    LET r == U8(q[1] * 64)
        g == U8(q[2] * 64)
        b == U8(q[3] * 64)
        a == U8(q[4] * 64)
    IN U8(r + a \div 4 + g \div 16 + b \div 64)

\* lines 81-82: the byte a pixel carries
\*   u8vec4 p = pixels[n] * 64;  bytes[n] = p.a + p.r / 4 + p.g / 16 + p.b / 64;
DecodePixel(q) ==
    LET r == U8(q[1] * 64)
        g == U8(q[2] * 64)
        b == U8(q[3] * 64)
        a == U8(q[4] * 64)
    IN U8(a + r \div 4 + g \div 16 + b \div 64)

\* the index of pixel (x, y) of the label in an image of the given width
LabelIndex(width, x, y) == (y + LABEL_Y) * width + (x + LABEL_X)

(***************************************************************************)
(* cart::load_png, cart::save_png                                          *)
(***************************************************************************)
\* lines 78-83: the vector bytes, of sizeof(m_rom) + 5 bytes (sparse)
PngBytes(img) ==
    LET size == SizeofMemory + 5
        own  == {n \in DOMAIN img.px : n < size /\ DecodePixel(img.px[n]) # 0}
        lo   == IF DecodePixel(img.low) = 0 THEN {}
                ELSE {n \in 0..(Min(size, img.split) - 1) : n \notin DOMAIN img.px}
        hi   == IF DecodePixel(img.high) = 0 THEN {}
                ELSE {n \in img.split..(size - 1) : n \notin DOMAIN img.px}
    IN [n \in own \cup lo \cup hi |-> DecodePixel(Pixel(img, n))]

\* lines 86-95: the label read from the image
PngLabel(img) ==
    [i \in 1..(LABEL_WIDTH * LABEL_HEIGHT) |->
        palette_best(Pixel(img, LabelIndex(img.width, (i - 1) % LABEL_WIDTH,
                                           (i - 1) \div LABEL_WIDTH)), 32)]

\* load_png on cart c; file is NoFile when lodepng::decode reports an error,
\* else the decoded image
load_png(c, file) ==
    IF ~file.readable THEN [ok |-> FALSE, cart |-> c]
    ELSE LET img == file.data
         IN IF img.width * img.height # 160 * 205 THEN [ok |-> FALSE, cart |-> c]
            ELSE LET label == IF img.width >= LABEL_WIDTH + LABEL_X
                                 /\ img.height >= LABEL_HEIGHT + LABEL_Y
                              THEN PngLabel(img) ELSE c.label
                 IN [ok   |-> TRUE,
                     cart |-> set_bin(Cart(c.rom, c.code, label, c.lua), PngBytes(img))]

\* lines 486-495: the carrier with the label drawn on it
ApplyLabel(img, label) ==
    IF Len(label) >= LABEL_WIDTH * LABEL_HEIGHT
    THEN LET at == [n \in {LabelIndex(img.width, x, y) :
                            x \in 0..(LABEL_WIDTH - 1), y \in 0..(LABEL_HEIGHT - 1)} |->
                      LET y == (n \div img.width) - LABEL_Y
                          x == (n % img.width) - LABEL_X
                      IN palette_get8(BitAnd(label[y * LABEL_WIDTH + x + 1], 31))]
         IN [img EXCEPT !.px = [n \in DOMAIN img.px \cup DOMAIN at |->
                                  IF n \in DOMAIN at THEN at[n] ELSE img.px[n]]]
    ELSE img

\* lines 500-505: the loop over n < rom.size() on a carrier of one colour
\* outside px (split = 0)
EmbedRom(img, rom) ==
    [img EXCEPT !.split = rom.size,
                !.low   = EmbedPixel(img.high, 0),
                !.px    = [n \in DOMAIN img.px \cup DOMAIN rom.at |->
                             IF n < rom.size THEN EmbedPixel(Pixel(img, n), Rd(rom.at, n))
                             ELSE img.px[n]]]

\* save_png on cart c; blank is NoFile when data/blank.png cannot be decoded,
\* encoded is whether lodepng::encode writes the file.  The value returned and
\* the image written.
save_png(c, blank, encoded) ==
    IF ~blank.readable THEN [ok |-> FALSE, image |-> NoFile]
    ELSE IF ~encoded THEN [ok |-> FALSE, image |-> NoFile]
    ELSE [ok    |-> TRUE,
          image |-> File(EmbedRom(ApplyLabel(blank.data, c.label), get_bin(c)))]

(***************************************************************************)
(* cart::load_lua, cart::load_js, cart::load                               *)
(***************************************************************************)
\* load_lua on cart c: m_code and m_rom are set, m_label and m_lua are not
load_lua(c, file) ==
    IF ~file.readable THEN [ok |-> FALSE, cart |-> c]
    ELSE [ok   |-> TRUE,
          cart |-> Cart(Zeroed, utf8_to_pico8(CrlfToLf(file.data)), c.label, c.lua)]

\* A .js file, as what load_js finds in it:
\*   start : whether code.find("[", code.find("var _cartdat=")) finds a '['
\*   end   : whether code.find("]", start) finds a ']'
\*   json  : what JS_ParseJSON makes of the text between them:
\*           exception |-> whether JS_IsException, array |-> whether
\*           JS_IsArray, size |-> the length of the array, at |-> its
\*           non-zero elements, as JS_ToUint32 converts them
JsFile(start, end, json) == File([start |-> start, end |-> end, json |-> json])

JsException == [exception |-> TRUE, array |-> FALSE, size |-> 0, at |-> Zeroed]

JsObject == [exception |-> FALSE, array |-> FALSE, size |-> 0, at |-> Zeroed]

JsArray(size, at) == [exception |-> FALSE, array |-> TRUE, size |-> size, at |-> at]

\* lines 142-150: the vector bytes from the array bin
JsBytes(bin) ==
    LET count == Min(bin.size, SizeofMemory + 5)
    IN Pack([i \in {d \in DOMAIN bin.at : d < count} |-> U8(bin.at[i])])

load_js(c, file) ==
    IF ~file.readable THEN [ok |-> FALSE, cart |-> c]
    ELSE IF ~file.data.start \/ ~file.data.end THEN [ok |-> FALSE, cart |-> c]
    ELSE LET bin == file.data.json
         IN IF ~bin.exception /\ bin.array
            THEN [ok |-> TRUE, cart |-> set_bin(c, JsBytes(bin))]
            ELSE [ok |-> FALSE, cart |-> c]

\* JS_ToUint32(ctx, &x, val) on an element of a parsed JSON array: the value
\* converted, and whether the conversion failed.  The elements of the model
\* are numbers in 0..2^31-1, which convert to themselves.
JS_ToUint32(val) == [fail |-> FALSE, x |-> val]

\* a load_js that returns as soon as the parsed value is known to be no array
load_js_live_early_return(file, before) ==
    IF ~file.readable THEN before
    ELSE IF ~file.data.start \/ ~file.data.end THEN before
    ELSE LET bin == file.data.json
         IN IF ~bin.exception /\ bin.array THEN before
            ELSE before + 2 + (IF bin.exception THEN 0 ELSE 1)

\* the number of engine resources (runtime, context, values) live when load_js
\* returns, before of them being live at the call.  Lines 132-133 acquire the
\* runtime and the context, line 139 the value bin (an exception holds no
\* reference), line 145 one value per element read (undefined holds none);
\* lines 149, 154, 156 and 157 release val, bin, the context and the runtime.
load_js_live(file, before) ==
    IF ~file.readable THEN before
    ELSE IF ~file.data.start \/ ~file.data.end THEN before
    ELSE LET bin      == file.data.json
             held     == IF bin.exception THEN 0 ELSE 1
             count    == Min(bin.size, SizeofMemory + 5)
             failing  == {i \in DOMAIN bin.at : i < count /\ JS_ToUint32(bin.at[i]).fail}
             \* the elements read and released before the loop ends
             read     == IF failing = {} THEN count ELSE SetMin(failing)
             \* the value the loop leaves without a JS_FreeValue (line 146)
             left     == IF failing = {} THEN 0 ELSE 1
             in_loop  == IF ~bin.exception /\ bin.array
                         THEN [acquired |-> read + left, released |-> read]
                         ELSE [acquired |-> 0, released |-> 0]
         IN before + (2 + held + in_loop.acquired) - (in_loop.released + held + 2)

\* lol::tolower of a character
ToLower(ch) == IF ch >= 65 /\ ch <= 90 THEN ch + 32 ELSE ch

\* lol::ends_with(lol::tolower(filename), ext)
EndsWith(filename, ext) ==
    /\ Len(filename) >= Len(ext)
    /\ \A k \in 1..Len(ext) : ToLower(filename[Len(filename) - Len(ext) + k]) = ext[k]

\* cart::load: each loader whose extension ends the file name is tried in
\* turn, on the cart the ones before it left, until one succeeds.  file is the
\* content as the loader reads it.
load(c, filename, file, sec0) ==
    LET Failed(cart) == [ok |-> FALSE, cart |-> cart]
        Lua(r) == IF r.ok THEN r
                  ELSE IF EndsWith(filename, <<46, 108, 117, 97>>)         \* ".lua"
                  THEN load_lua(r.cart, file) ELSE Failed(r.cart)
        Png(r) == IF r.ok THEN r
                  ELSE IF EndsWith(filename, <<46, 112, 110, 103>>)        \* ".png"
                  THEN load_png(r.cart, file) ELSE Failed(r.cart)
        Js(r)  == IF r.ok THEN r
                  ELSE IF EndsWith(filename, <<46, 106, 115>>)             \* ".js"
                  THEN load_js(r.cart, file) ELSE Failed(r.cart)
    IN Js(Png(Lua(IF EndsWith(filename, <<46, 112, 56>>)                   \* ".p8"
                  THEN load_p8(c, file, sec0) ELSE Failed(c))))

(***************************************************************************)
(* cart::get_lua (cart.h): the code cache m_lua, filled from m_code on the *)
(* first call after a load                                                 *)
(***************************************************************************)
get_lua(c) == IF Len(c.lua) = 0 THEN Cart(c.rom, c.code, c.label, c.code) ELSE c

(***************************************************************************)
(* State                                                                   *)
(***************************************************************************)
VARIABLES
    m_rom,      \* cart::m_rom, struct memory
    m_code,     \* cart::m_code, the script text
    m_label,    \* cart::m_label, the label pixels
    m_lua,      \* cart::m_lua, the code cache
    ret,        \* the last call: its name, its arguments, the value returned
    p8_file,    \* the file save_p8 wrote last; NoFile before
    png_file,   \* the image save_png wrote last; NoFile before
    saved,      \* the cart as it was when p8_file and png_file were written
    input,      \* the argument of a conversion checked on its own
    output      \* its result

vars == <<m_rom, m_code, m_label, m_lua, ret, p8_file, png_file, saved, input, output>>

\* the cart of the current state and of the next
CartNow == Cart(m_rom, m_code, m_label, m_lua)

CartNext == Cart(m_rom', m_code', m_label', m_lua')

SetCart(c) == m_rom' = c.rom /\ m_code' = c.code /\ m_label' = c.label /\ m_lua' = c.lua

NoCall == [op |-> "none", ok |-> TRUE]

\* nothing saved yet
NotSaved == [has |-> FALSE]

Saved(c) == [has |-> TRUE, cart |-> c]

InitCart ==
    /\ m_rom = Zeroed
    /\ m_code = <<>>
    /\ m_label = <<>>
    /\ m_lua = <<>>
    /\ ret = NoCall
    /\ p8_file = NoFile
    /\ png_file = NoFile
    /\ saved = [p8 |-> NotSaved, png |-> NotSaved]

NoInput == [op |-> "none"]

(***************************************************************************)
(* The operations of a cart                                                *)
(***************************************************************************)
\* cart::load(filename)
Load(filename, file) ==
    \E r \in {load(CartNow, filename, file, sec0) : sec0 \in Sections} :
        /\ SetCart(r.cart)
        /\ ret' = [op |-> "load", ok |-> r.ok, filename |-> filename, file |-> file]
        /\ UNCHANGED <<p8_file, png_file, saved, input, output>>

\* cart::load_p8(filename) on the file save_p8 wrote
LoadP8 ==
    /\ p8_file.readable
    /\ \E r \in {load_p8(CartNow, p8_file, sec0) : sec0 \in Sections} :
        /\ SetCart(r.cart)
        /\ ret' = [op |-> "load_p8", ok |-> r.ok]
        /\ UNCHANGED <<p8_file, png_file, saved, input, output>>

\* cart::load_png(filename) on the file save_png wrote
LoadPng ==
    /\ png_file.readable
    /\ \E r \in {load_png(CartNow, png_file)} :
        /\ SetCart(r.cart)
        /\ ret' = [op |-> "load_png", ok |-> r.ok]
        /\ UNCHANGED <<p8_file, png_file, saved, input, output>>

\* cart::load_lua(filename)
LoadLua(file) ==
    \E r \in {load_lua(CartNow, file)} :
        /\ SetCart(r.cart)
        /\ ret' = [op |-> "load_lua", ok |-> r.ok]
        /\ UNCHANGED <<p8_file, png_file, saved, input, output>>

\* cart::load_js(filename)
LoadJs(file) ==
    \E r \in {load_js(CartNow, file)} :
        /\ SetCart(r.cart)
        /\ ret' = [op |-> "load_js", ok |-> r.ok]
        /\ UNCHANGED <<p8_file, png_file, saved, input, output>>

\* cart::get_lua()
GetLua ==
    /\ SetCart(get_lua(CartNow))
    /\ ret' = [op |-> "get_lua", ok |-> TRUE]
    /\ UNCHANGED <<p8_file, png_file, saved, input, output>>

\* the longest script text a cart is saved with (each save_p8 and load_p8 of a
\* cart with no data after its script adds a '\n' to the script)
MaxCodeLen == 11

\* cart::save_p8(filename): always returns true
SaveP8 ==
    /\ Len(m_code) <= MaxCodeLen
    /\ p8_file' = File(save_p8(CartNow))
    /\ saved' = [saved EXCEPT !.p8 = Saved(CartNow)]
    /\ ret' = [op |-> "save_p8", ok |-> TRUE]
    /\ UNCHANGED <<m_rom, m_code, m_label, m_lua, png_file, input, output>>

\* cart::save_png(filename); blank is data/blank.png as it is read, encoded
\* whether the image file gets written
SavePng(blank, encoded) ==
    \E r \in {save_png(CartNow, blank, encoded)} :
        /\ png_file' = IF r.ok THEN r.image ELSE png_file
        /\ saved' = IF r.ok THEN [saved EXCEPT !.png = Saved(CartNow)] ELSE saved
        /\ ret' = [op |-> "save_png", ok |-> r.ok]
        /\ UNCHANGED <<m_rom, m_code, m_label, m_lua, p8_file, input, output>>

\* cart::get_bin(): returns the vector, with no other outcome
GetBin ==
    /\ ret' = [op |-> "get_bin", ok |-> TRUE, bin |-> get_bin(CartNow)]
    /\ UNCHANGED <<m_rom, m_code, m_label, m_lua, p8_file, png_file, saved, input, output>>

(***************************************************************************)
(* The files of the model                                                  *)
(***************************************************************************)
\* the two header lines save_p8 writes
HeaderText == StrFirstLine \o StrVersion \o FormatDec(PICO8_VERSION) \o <<10>>

\* "__lua__\nx=1\n__gfx__\n1a\n__label__\n0v\nVw1\n"
TextCodeGfxLabel ==
    <<95, 95, 108, 117, 97, 95, 95, 10, 120, 61, 49, 10, 95, 95, 103, 102, 120, 95, 95, 10, 49, 97, 10, 95, 95, 108, 97, 98, 101, 108, 95, 95, 10, 48, 118, 10, 86, 119, 49, 10>>

\* "__lua__\nx=1\n"
TextCodeOnly ==
    <<95, 95, 108, 117, 97, 95, 95, 10, 120, 61, 49, 10>>

\* "ff\n__gff__\n01\n"
TextPrelude ==
    <<102, 102, 10, 95, 95, 103, 102, 102, 95, 95, 10, 48, 49, 10>>

\* "y=2\r\n"
TextLuaCrlf ==
    <<121, 61, 50, 13, 10>>

\* the .p8 documents
P8Files ==
    { File(HeaderText \o TextCodeGfxLabel),      \* code, graphics and a label
      File(HeaderText),                          \* the header alone
      File(HeaderText \o TextPrelude),           \* data before the first section
      File(TextCodeOnly),                        \* no header
      NoFile }

\* the .lua files
LuaFiles == {File(TextLuaCrlf), NoFile}

\* a carrier colour whose low bits are all zero
CarrierPixel == <<88, 124, 36, 252>>

\* the pixels of a cartridge image given one by one: byte 0x1a at address 0,
\* the text "z" at the start of the code region, and one label pixel of
\* palette entry 3
PngPixels ==
    [n \in {0, OffCode, LabelIndex(160, 0, 0)} |->
        IF n = 0 THEN <<89, 126, 38, 252>>
        ELSE IF n = OffCode THEN <<91, 126, 38, 253>>
        ELSE palette_get8(3)]

\* the .png files, as lodepng decodes them: the cartridge image, the same
\* pixels as 205 by 160 and as 32800 by 1, a 100 by 100 image, and a file
\* that does not decode
PngFiles ==
    { File(Image(160, 205, 0, CarrierPixel, CarrierPixel, PngPixels)),
      File(Image(205, 160, 0, CarrierPixel, CarrierPixel, PngPixels)),
      File(Image(32800, 1, 0, CarrierPixel, CarrierPixel, PngPixels)),
      File(Image(100, 100, 0, CarrierPixel, CarrierPixel, PngPixels)),
      NoFile }

\* the .js files
JsFiles ==
    { NoFile,
      JsFile(FALSE, FALSE, JsException),         \* no '[' after "var _cartdat="
      JsFile(TRUE, FALSE, JsException),          \* no ']' after the '['
      JsFile(TRUE, TRUE, JsException),           \* the literal does not parse
      JsFile(TRUE, TRUE, JsObject),              \* it parses, not to an array
      JsFile(TRUE, TRUE, JsArray(SizeofMemory + 5,
                                 [i \in {OffGfxProps, OffCode} |-> 369])) }

\* file names and the files behind them
NamedFiles ==
    ({<<65, 46, 80, 56>>} \X P8Files)                           \* "A.P8"
    \cup ({<<97, 46, 108, 117, 97>>} \X LuaFiles)                \* "a.lua"
    \cup ({<<97, 46, 112, 110, 103>>} \X PngFiles)               \* "a.png"
    \cup ({<<97, 46, 106, 115>>} \X JsFiles)                     \* "a.js"
    \cup ({<<97, 46, 116, 120, 116>>} \X {File(TextLuaCrlf)})    \* "a.txt"

(***************************************************************************)
(* Spec: a cart that loads the files of the model in any order             *)
(***************************************************************************)
Init == InitCart /\ input = NoInput /\ output = NoInput

LoadAny == \E f \in NamedFiles : Load(f[1], f[2])

Next == LoadAny \/ GetLua

Spec == Init /\ [][Next]_vars

(***************************************************************************)
(* SpecText: carts from .js and .lua files, written with save_p8 and read  *)
(* back with load_p8                                                       *)
(***************************************************************************)
\* the array literal with the elements at, every other element zero
JsCart(at) == JsFile(TRUE, TRUE, JsArray(SizeofMemory + 5, at))

\* elements in the graphics: the first two lines, one value wider than a byte
PokeGfx == (0 :> 26) @@ (65 :> 300)

\* elements in the map and the sprite flags
PokeMap == (OffMap + 130 :> 127) @@ (OffGfxProps + 255 :> 1)

\* an element in the region the graphics and the map share
PokeShared == (OffMap2 :> 255)

\* elements in the first two songs
PokeSong == (OffSong :> 129) @@ (OffSong + 1 :> 2) @@ (OffSong + 2 :> 131)
            @@ (OffSong + 3 :> 10) @@ (OffSong + 7 :> 128)

\* elements in the first two sound effects: notes and the four trailing bytes
PokeSfx == (OffSfx :> 255) @@ (OffSfx + 1 :> 171) @@ (OffSfx + 65 :> 16)
           @@ (OffSfx + SizeofSfxT + 63 :> 156)

\* elements above the code: persistent data and the last byte of the screen
PokeHigh == (24064 :> 7) @@ (SizeofMemory - 1 :> 9)

\* the text str as elements from the start of the code region
PokeCode(str) == [a \in OffCode..(OffCode + Len(str) - 1) |-> str[a - OffCode + 1]]

\* "print(1234)"
TextPlain ==
    <<112, 114, 105, 110, 116, 40, 49, 50, 51, 52, 41>>

\* "__gfx__\n10\n": a script with a line that reads as a section marker
TextMarker ==
    <<95, 95, 103, 102, 120, 95, 95, 10, 49, 48, 10>>

\* "print(12", NUL, "4)"
TextNul ==
    <<112, 114, 105, 110, 116, 40, 49, 50, 0, 52, 41>>

TextJsFiles ==
    { JsCart(PokeGfx),
      JsCart(PokeMap),
      JsCart(PokeSong @@ PokeSfx),
      JsCart(PokeGfx @@ PokeCode(TextPlain)),
      JsCart(PokeSong @@ PokeCode(TextMarker)),
      JsCart(PokeMap @@ PokeHigh),
      JsCart(PokeShared),
      JsCart(PokeGfx @@ PokeSong @@ PokeSfx @@ PokeCode(TextPlain) @@ PokeHigh) }

TextLuaFiles == {File(TextPlain), File(TextMarker), File(TextNul)}

TextLoadJs == \E f \in TextJsFiles : LoadJs(f)

TextLoadLua == \E f \in TextLuaFiles : LoadLua(f)

NextText == TextLoadJs \/ TextLoadLua \/ SaveP8 \/ LoadP8

SpecText == Init /\ [][NextText]_vars

\* the script text str holds no NUL and no line that reads as a section marker
IsPlainScript(str) ==
    /\ c_str(str) = str
    /\ \A b \in LineStarts(str, 1) : MatchSectionLine(str, b) = 0

\* the Memory Layout the last save_p8 wrote from
SavedRom == saved.p8.cart.rom

\* C2 (as stated): save_p8 then load_p8 of the written document gives back the
\* saved Memory Layout over all 0x8000 bytes
C2_TextRoundTripAllBytes ==
    ret.op = "load_p8" => (ret.ok /\ \A a \in Addr : Rd(m_rom, a) = Rd(SavedRom, a))

\* C2 (amended): for a cart whose script text holds no NUL and no section
\* marker line, save_p8 then load_p8 gives back the saved bytes of
\* 0x0000..0x42ff, and reads every byte of 0x4300..0x7fff as zero
C2_TextRoundTripBelowCode ==
    (ret.op = "load_p8" /\ IsPlainScript(saved.p8.cart.code))
        => /\ ret.ok
           /\ \A a \in Addr : Rd(m_rom, a) = IF a < OffCode THEN Rd(SavedRom, a) ELSE 0

\* a document written from a cart with graphics, songs, sound effects, script
\* and bytes above the code has been read back
C2_PopulatedCartReadBack ==
    /\ ret.op = "load_p8"
    /\ IsPlainScript(saved.p8.cart.code)
    /\ NonZero(SavedRom, OffGfx, SizeofGfx) # {}
    /\ NonZero(SavedRom, OffSong, SizeofSong) # {}
    /\ NonZero(SavedRom, OffSfx, SizeofSfx) # {}
    /\ NonZero(SavedRom, OffCode, SizeofMemory - OffCode) # {}

(***************************************************************************)
(* SpecImage: carts from .js and .lua files, written with save_png and     *)
(* read back with load_png                                                 *)
(***************************************************************************)
\* every byte value, at the start of the graphics
PokeAllValues == [a \in 1..255 |-> a]

ImageJsFiles ==
    { JsCart(PokeAllValues),
      JsCart(PokeMap @@ PokeSong @@ PokeSfx),
      JsCart(PokeGfx @@ PokeCode(TextPlain)),
      JsCart(PokeShared @@ PokeHigh),
      JsCart(PokeGfx @@ PokeCode(TextPlain) @@ PokeHigh) }

ImageLuaFiles == {File(TextPlain)}

ImageLoadJs == \E f \in ImageJsFiles : LoadJs(f)

ImageLoadLua == \E f \in ImageLuaFiles : LoadLua(f)

ImageSavePng == \E blank \in {BlankFile, NoFile}, encoded \in BOOLEAN : SavePng(blank, encoded)

NextImage == ImageLoadJs \/ ImageLoadLua \/ ImageSavePng \/ LoadPng

SpecImage == Init /\ [][NextImage]_vars

(***************************************************************************)
(* SpecBin: carts with scripts around the capacity of the code region,     *)
(* packed with get_bin and written with save_png                           *)
(***************************************************************************)
\* a script text one character longer than the code region: sizeof(code_t) + 1
\* times 'a'
HugeText == [i \in 1..(SizeofCodeT + 1) |-> 97]

BinLuaFiles == {File(TextPlain), File(TextLuaCrlf), File(HugeText)}

BinJsFiles == {JsCart(PokeGfx @@ PokeCode(TextPlain) @@ PokeHigh), JsCart(PokeSong)}

BinLoadLua == \E f \in BinLuaFiles : LoadLua(f)

BinLoadJs == \E f \in BinJsFiles : LoadJs(f)

NextBin == BinLoadLua \/ BinLoadJs \/ GetBin \/ ImageSavePng

SpecBin == Init /\ [][NextBin]_vars

(***************************************************************************)
(* Properties of the image round trip (SpecImage) and of get_bin (SpecBin) *)
(***************************************************************************)
\* the cart the last save_png wrote from
SavedPng == saved.png.cart

\* C3 (as stated): save_png then load_png of the written image gives back the
\* saved Memory Layout, byte for byte
C3_ImageRoundTripAllBytes ==
    ret.op = "load_png" => (ret.ok /\ \A a \in Addr : Rd(m_rom, a) = Rd(SavedPng.rom, a))

\* C3 (amended): save_png then load_png gives back the saved bytes of
\* 0x0000..0x42ff; the bytes of 0x4300..0x7fff are the compressed script text
\* of the saved cart, cut or zero-filled to the size of the region
C3_ImageRoundTripBelowCode ==
    ret.op = "load_png"
        => /\ ret.ok
           /\ \A a \in Addr :
                Rd(m_rom, a) = IF a < OffCode THEN Rd(SavedPng.rom, a)
                               ELSE At(compress(SavedPng.code), a - OffCode + 1)

\* an image written from a cart that holds every byte value has been read back
C3_AllValuesReadBack ==
    /\ ret.op = "load_png"
    /\ \A v \in 1..255 : \E a \in DOMAIN SavedPng.rom : a < OffCode /\ SavedPng.rom[a] = v

\* C5: when the compressed script text is larger than the code region, get_bin
\* and save_png report a failure
C5_OverflowIsReported ==
    (ret.op \in {"get_bin", "save_png"} /\ Len(compress(m_code)) > SizeofMemory - OffCode)
        => ~ret.ok

(***************************************************************************)
(* SpecHex: action<r_data> on the data of one hexadecimal section          *)
(***************************************************************************)
\* the longest data string
MaxDataLen == 4

\* the characters of the data strings: 'a', 'b', '1', 'F', ' ', '-'
DataChars == {97, 98, 49, 70, 32, 45}

RECURSIVE Strings(_)
\* the strings over DataChars of length n
Strings(n) ==
    IF n = 0 THEN {<<>>}
    ELSE {Append(str, ch) : str \in Strings(n - 1), ch \in DataChars}

HexSections == {"gfx", "gff", "map", "sfx", "mus"}

HexInputs ==
    {[op |-> "hex", section |-> sec, str |-> str] :
        sec \in HexSections, str \in UNION {Strings(n) : n \in 0..MaxDataLen}}

InitHex == InitCart /\ input \in HexInputs /\ output = NoInput

\* the section's buffer after action<r_data>::apply on the data, the section
\* being the current one
DecodeData ==
    /\ input.op = "hex" /\ output.op = "none"
    /\ output' = [op    |-> "hex",
                  bytes |-> ApplyData(NewReader(input.section), input.str)
                                .m_sections[input.section]]
    /\ UNCHANGED <<m_rom, m_code, m_label, m_lua, ret, p8_file, png_file, saved, input>>

NextHex == DecodeData

SpecHex == InitHex /\ [][NextHex]_vars

(***************************************************************************)
(* SpecSfx: one sound effect written by save_p8 and read by load_p8        *)
(***************************************************************************)
\* the notes tried: every key, every instrument, every volume and every
\* effect, the other fields at their least or at their greatest value
NoteTuples ==
    {<<key, 0, 0, 0>> : key \in 0..63}
    \cup {<<63, instrument, 7, 15>> : instrument \in 0..7}
    \cup {<<63, 7, volume, 15>> : volume \in 0..7}
    \cup {<<63, 7, 7, effect>> : effect \in 0..15}
    \cup {<<21, 5, 2, 10>>, <<42, 2, 5, 5>>}

\* the 16-bit value of every other note of the entry: no bit or every bit
NoteFills == {0, 65535}

SfxInputs ==
    {[op |-> "note", j |-> j, note |-> note, fill |-> fill] :
        j \in 0..31, note \in NoteTuples, fill \in NoteFills}

\* the 68 bytes of a sound effect whose note j is the input's note, the other
\* notes and the four trailing bytes the fill
SfxEntry(in) ==
    [k \in 1..SizeofSfxT |->
        LET v == IF k <= 64 /\ (k - 1) \div 2 = in.j
                 THEN NoteT(in.note[1], in.note[2], in.note[3], in.note[4])
                 ELSE in.fill
        IN IF (k - 1) % 2 = 0 THEN v % 256 ELSE v \div 256]

InitSfx == InitCart /\ input \in SfxInputs /\ output = NoInput

\* the entry as sfx 0 of a Memory Layout, its line of the sfx section, the
\* section's buffer and the entry load_p8 makes of it
NoteRoundTrip ==
    /\ input.op = "note" /\ output.op = "none"
    /\ LET rom == Memcpy(Zeroed, OffSfx, SfxEntry(input), SizeofSfxT)
           sfx == DecodeHex(SfxLine(rom, 0), FALSE)
       IN output' = [op     |-> "note",
                     before |-> SfxEntry(input),
                     note   |-> LoadNote(sfx, 0, input.j),
                     after  |-> LoadSfx(sfx, 0)]
    /\ UNCHANGED <<m_rom, m_code, m_label, m_lua, ret, p8_file, png_file, saved, input>>

NextSfx == NoteRoundTrip

SpecSfx == InitSfx /\ [][NextSfx]_vars

(***************************************************************************)
(* SpecMusic: one song read by load_p8, from bytes and from save_p8's line *)
(***************************************************************************)
\* the first byte of the 5-byte groups: every value whose bits 5..7 are
\* clear, and some with them set
GroupFlagBytes == (0..31) \cup {32, 64, 128, 144, 240, 255}

\* the other bytes of the groups
GroupBytes == {0, 127, 128}

\* the sound-effect indices of the songs
SfxIndices == {0, 1, 10, 64, 127}

\* "09 0102030a\n"
MusicLineText == <<48, 57, 32, 48, 49, 48, 50, 48, 51, 48, 97, 10>>

MusicInputs ==
    {[op |-> "group", mus |-> <<b0, b1, b2, b3, b4>>] :
        b0 \in GroupFlagBytes, b1 \in GroupBytes, b2 \in GroupBytes,
        b3 \in GroupBytes, b4 \in GroupBytes}
    \cup {[op |-> "song", flags |-> <<start, loop, stop, mode>>,
           sfx |-> <<s0, s1, s2, s3>>] :
        start \in 0..1, loop \in 0..1, stop \in 0..1, mode \in 0..1,
        s0 \in SfxIndices, s1 \in SfxIndices, s2 \in SfxIndices, s3 \in SfxIndices}
    \cup {[op |-> "line", str |-> MusicLineText]}

\* song_t's bit fields: the four flags of an entry, and its four indices
SongFlags(data) == [n \in 1..4 |-> Shr(data[n], 7)]

SongSfx(data) == [n \in 1..4 |-> song_sfx(data, n - 1)]

InitMusic == InitCart /\ input \in MusicInputs /\ output = NoInput

\* the song load_p8 makes of a 5-byte group of the music buffer
DecodeGroup ==
    /\ input.op = "group" /\ output.op = "none"
    /\ output' = [op |-> "group", data |-> LoadSong(input.mus, 0)]
    /\ UNCHANGED <<m_rom, m_code, m_label, m_lua, ret, p8_file, png_file, saved, input>>

\* a song as entry 0 of a Memory Layout, its line of the music section, and
\* the song load_p8 makes of the line
SongRoundTrip ==
    /\ input.op = "song" /\ output.op = "none"
    /\ LET data == [n \in 1..4 |-> input.sfx[n] + 128 * input.flags[n]]
           rom  == Memcpy(Zeroed, OffSong, data, SizeofSongT)
           line == MusicLine(rom, 0)
       IN output' = [op |-> "song", line |-> line,
                     data |-> LoadSong(DecodeHex(line, FALSE), 0)]
    /\ UNCHANGED <<m_rom, m_code, m_label, m_lua, ret, p8_file, png_file, saved, input>>

\* the song load_p8 makes of a given line of the music section
ReadLine ==
    /\ input.op = "line" /\ output.op = "none"
    /\ output' = [op |-> "line", data |-> LoadSong(DecodeHex(input.str, FALSE), 0)]
    /\ UNCHANGED <<m_rom, m_code, m_label, m_lua, ret, p8_file, png_file, saved, input>>

NextMusic == DecodeGroup \/ SongRoundTrip \/ ReadLine

SpecMusic == InitMusic /\ [][NextMusic]_vars

(***************************************************************************)
(* Properties of loading (Spec)                                            *)
(***************************************************************************)
\* ".png"
StrPng == <<46, 112, 110, 103>>

\* the labels the file of the last load gives a cart that held nothing
LabelsOfFile ==
    {load(EmptyCart, ret.filename, ret.file, sec0).cart.label : sec0 \in Sections}

\* C1: a load that returns failure leaves the Memory Layout, the script text,
\* the label and the code cache exactly as they were before the call
C1_FailedLoadLeavesCart ==
    [][(ret'.op = "load" /\ ~ret'.ok) => CartNext = CartNow]_vars

\* a load has failed on a cart that holds data, a label and cached code
C1_FailedLoadOnPopulatedCart ==
    /\ ret.op = "load" /\ ~ret.ok
    /\ m_rom # Zeroed /\ m_code # <<>> /\ m_label # <<>> /\ m_lua # <<>>

\* C4: every successful load leaves the code cache empty and a label that comes
\* only from the file just loaded
C4_LoadClearsCacheAndLabel ==
    (ret.op = "load" /\ ret.ok) => (m_lua = <<>> /\ m_label \in LabelsOfFile)

\* C6: a load of a .png succeeds only for a carrier 160 wide and 205 high
C6_OnlyExactDimensionsDecode ==
    (ret.op = "load" /\ ret.ok /\ EndsWith(ret.filename, StrPng))
        => (ret.file.data.width = 160 /\ ret.file.data.height = 205)

(***************************************************************************)
(* Properties of the hexadecimal sections (SpecHex, SpecSfx, SpecMusic)    *)
(***************************************************************************)
\* the hexadecimal digits of str, in order
HexOnly(str) == SelectSeq(str, LAMBDA ch : HexValue(ch) >= 0)

\* the digits paired left to right, each pair one byte; in the gfx section the
\* first digit of a pair is the low nybble
Paired(digits, is_swapped) ==
    [k \in 1..(Len(digits) \div 2) |->
        IF is_swapped
        THEN 16 * HexValue(digits[2 * k]) + HexValue(digits[2 * k - 1])
        ELSE 16 * HexValue(digits[2 * k - 1]) + HexValue(digits[2 * k])]

\* C7: the bytes decoded from a data string (here: one with an even number of
\* hexadecimal digits) are those of its hexadecimal digits alone, paired left
\* to right
C7_NonHexDoesNotBreakPairing ==
    (output.op = "hex" /\ Len(HexOnly(input.str)) % 2 = 0)
        => output.bytes = Paired(HexOnly(input.str), input.section = "gfx")

\* C8: a note written with save_p8's five digits and read with load_p8's
\* 20-bit window is the note written, and every other byte of the sound effect
\* is as it was
C8_NotePackingRoundTrip ==
    output.op = "note"
        => /\ output.note = [key |-> input.note[1], instrument |-> input.note[2],
                             volume |-> input.note[3], effect |-> input.note[4]]
           /\ output.after = output.before

\* an odd note with every field at its greatest value, between notes with
\* every bit set, has been written and read
C8_OddNoteRead ==
    /\ output.op = "note"
    /\ input.j = 31 /\ input.note = <<63, 7, 7, 15>> /\ input.fill = 65535

\* C9 (as stated): bit 7 of dest byte k is bit 7 - k of source byte 0, and the
\* low 7 bits of dest byte k are those of source byte k + 1
C9_FlagsFromHighBits ==
    output.op = "group"
        => \A k \in 0..3 :
             /\ Bit(output.data[k + 1], 7) = Bit(input.mus[1], 7 - k)
             /\ output.data[k + 1] % 128 = input.mus[k + 2] % 128

\* C9 (amended): bit 7 of dest byte k is set when bit k of source byte 0 or
\* bit 7 of source byte k + 1 is set, and the low 7 bits of dest byte k are
\* those of source byte k + 1
C9_FlagsFromLowBits ==
    output.op = "group"
        => \A k \in 0..3 :
             /\ Bit(output.data[k + 1], 7) =
                    IF Bit(input.mus[1], k) = 1 \/ Bit(input.mus[k + 2], 7) = 1
                    THEN 1 ELSE 0
             /\ output.data[k + 1] % 128 = input.mus[k + 2] % 128

\* the group 0x05 0x00 0x7f 0x80 0x00 has been decoded: flags in bits 0 and
\* 2, and a source byte with bit 7 set
C9_MixedGroupDecoded ==
    output.op = "group" /\ input.mus = <<5, 0, 127, 128, 0>>

\* C10: the music line save_p8 writes for a song reads back with the same
\* four flags and the same four indices; the line "09 0102030a" reads back
\* as indices 1, 2, 3, 10 with the start flag set
C10_SongFlagsRoundTrip ==
    /\ output.op = "song"
         => /\ SongFlags(output.data) = input.flags
            /\ SongSfx(output.data) = input.sfx
    /\ output.op = "line"
         => /\ SongSfx(output.data) = <<1, 2, 3, 10>>
            /\ SongFlags(output.data)[1] = 1

\* a song with the loop and mode flags alone has been written and read
C10_LoopModeSongRead ==
    output.op = "song" /\ input.flags = <<0, 1, 0, 1>> /\ input.sfx = <<1, 127, 64, 10>>

(***************************************************************************)
(* SpecMap: load_p8 on documents with a __gfx__ and a __map__ section      *)
(***************************************************************************)
\* n characters '0'
Zeros(n) == [i \in 1..n |-> 48]

\* data of the __gfx__ section (each pair of digits is swapped when it is
\* read): a byte at 0x1000, bytes at 0x1000 and 0x1002, bytes at 0 and
\* 0x1000, a byte past the end of the region
GfxAt1000 == Zeros(2 * OffMap2) \o <<97, 53>>

GfxAt1000And1002 == Zeros(2 * OffMap2) \o <<48, 102, 48, 48, 99, 51>>

GfxAt0And1000 == <<50, 49>> \o Zeros(2 * OffMap2 - 2) \o <<102, 102>>

GfxPastEnd == Zeros(2 * SizeofGfx) \o <<102, 102>>

\* data of the __map__ section: a byte at 0x1000, bytes at 0, 0x1000 and
\* 0x1001, bytes at 0xfff and 0x1001, a byte past the end of the second block
MapAt1000 == Zeros(2 * SizeofMap) \o <<97, 53>>

MapAt0And1000 == <<55, 101>> \o Zeros(2 * SizeofMap - 2) \o <<48, 102, 51, 99>>

MapAtFffAnd1001 == Zeros(2 * SizeofMap - 2) \o <<56, 49, 48, 48, 49, 56>>

MapPastEnd == Zeros(2 * (SizeofMap + SizeofMap2)) \o <<102, 102>>

\* the pairs of a gfx data and a map data: the short ones ("1f", "21", "0e";
\* "c3", "7e"; <<>> for no section), and the ones that reach the second block
MapPairs ==
    ({<<>>, <<49, 102>>, <<50, 49>>, <<48, 101>>} \X {<<>>, <<99, 51>>, <<55, 101>>})
    \cup { <<GfxAt1000, MapAt1000>>,
           <<GfxAt1000And1002, MapAt0And1000>>,
           <<GfxAt0And1000, <<>> >>,
           << <<>>, MapAtFffAnd1001>>,
           <<GfxAt1000, MapAtFffAnd1001>>,
           <<GfxAt0And1000, MapAt1000>>,
           <<GfxPastEnd, <<99, 51>> >>,
           << <<49, 102>>, MapPastEnd>>,
           <<GfxAt1000, <<99, 51>> >>,
           << <<49, 102>>, MapAt1000>> }

MapInputs ==
    {[op |-> "map", gfx |-> pair[1], map |-> pair[2], gfx_first |-> first] :
        pair \in MapPairs, first \in BOOLEAN}

\* a section of a document: its marker line and its data; nothing for no data
DocSection(marker, text) ==
    IF text = <<>> THEN <<>> ELSE marker \o <<10>> \o text \o <<10>>

\* the document with the two sections in the order asked for
MapDoc(in) ==
    HeaderText
    \o (IF in.gfx_first
        THEN DocSection(StrGfx, in.gfx) \o DocSection(StrMap, in.map)
        ELSE DocSection(StrMap, in.map) \o DocSection(StrGfx, in.gfx))

InitMap ==
    /\ InitCart
    /\ input \in MapInputs
    /\ output = NoInput

\* the document is written to the file load_p8 is about to read
WriteMapDoc ==
    /\ input.op = "map" /\ ~p8_file.readable
    /\ p8_file' = File(MapDoc(input))
    /\ UNCHANGED <<m_rom, m_code, m_label, m_lua, ret, png_file, saved, input, output>>

\* load_p8 on the document, once
MapLoadP8 == ret.op = "none" /\ LoadP8

NextMap == WriteMapDoc \/ MapLoadP8

SpecMap == InitMap /\ [][NextMap]_vars

\* element i (0-based) of a buffer; 0 when the buffer is shorter
ByteAt(buf, i) == IF i < Len(buf) THEN buf[i + 1] ELSE 0

\* C11: after load_p8 each byte of the map-overflow region is the OR of the
\* bytes at that offset of the decoded gfx buffer and of the decoded map
\* buffer, and the first 0x1000 map bytes are in the map region as they are;
\* the rest of the memory comes from the gfx buffer alone, so that the memory
\* is one function of the two buffers, whichever section comes first
C11_MapOverflowMerge ==
    (ret.op = "load_p8" /\ input.op = "map")
        => /\ ret.ok
           /\ \A gfx \in {DecodeHex(input.gfx, TRUE)}, map \in {DecodeHex(input.map, FALSE)} :
                /\ \A i \in 0..(SizeofMap2 - 1) :
                     Rd(m_rom, OffMap2 + i)
                         = BitOr(ByteAt(gfx, OffMap2 + i), ByteAt(map, SizeofMap + i))
                /\ \A i \in 0..(SizeofMap - 1) : Rd(m_rom, OffMap + i) = ByteAt(map, i)
                /\ \A a \in DOMAIN m_rom :
                     \/ a < OffMap + SizeofMap /\ a >= OffMap2
                     \/ a < OffMap2 /\ m_rom[a] = ByteAt(gfx, a)

\* a document whose map section comes first has been loaded, its gfx buffer
\* holding 0x5a and its map buffer 0xa5 at offset 0x1000
C11_BothBuffersOverlap ==
    /\ ret.op = "load_p8" /\ input.op = "map" /\ ~input.gfx_first
    /\ ByteAt(DecodeHex(input.gfx, TRUE), OffMap2) = 90
    /\ ByteAt(DecodeHex(input.map, FALSE), SizeofMap) = 165
    /\ Rd(m_rom, OffMap2) = 255

(***************************************************************************)
(* SpecUnknown: load_p8 on documents with sections of unknown markers      *)
(***************************************************************************)
\* the most sections of a document
MaxSections == 3

\* "__foo__", "__x1__", "__bar__": markers that contain none of the tags
UnknownMarkers ==
    { <<95, 95, 102, 111, 111, 95, 95>>,
      <<95, 95, 120, 49, 95, 95>>,
      <<95, 95, 98, 97, 114, 95, 95>> }

\* the sections, each a marker and its data lines: __lua__ "x=1\n",
\* __gfx__ "1a\n", __label__ "0v\nVw\n", __foo__ "ff\n", __x1__ "y=2\n",
\* __bar__ with no data
DocSections ==
    { <<StrLua, <<120, 61, 49, 10>> >>,
      <<StrGfx, <<49, 97, 10>> >>,
      <<StrLab, <<48, 118, 10, 86, 119, 10>> >>,
      << <<95, 95, 102, 111, 111, 95, 95>>, <<102, 102, 10>> >>,
      << <<95, 95, 120, 49, 95, 95>>, <<121, 61, 50, 10>> >>,
      << <<95, 95, 98, 97, 114, 95, 95>>, <<>> >> }

\* the text before the first section: none, "ff\n"
DocPreludes == {<<>>, <<102, 102, 10>>}

RECURSIVE SectionSeqs(_)
\* the sequences of n sections
SectionSeqs(n) ==
    IF n = 0 THEN {<<>>}
    ELSE {Append(secs, sec) : secs \in SectionSeqs(n - 1), sec \in DocSections}

DocInputs ==
    {[op |-> "doc", prelude |-> prelude, sections |-> secs] :
        prelude \in DocPreludes, secs \in UNION {SectionSeqs(n) : n \in 0..MaxSections}}

\* the document: the header, the prelude, the sections
DocText(prelude, sections) ==
    HeaderText \o prelude
    \o Concat([n \in 1..Len(sections) |-> sections[n][1] \o <<10>> \o sections[n][2]])

InitUnknown ==
    /\ InitCart
    /\ input \in DocInputs
    /\ output = NoInput

\* the document is written to the file load_p8 is about to read
WriteDoc ==
    /\ input.op = "doc" /\ ~p8_file.readable
    /\ p8_file' = File(DocText(input.prelude, input.sections))
    /\ UNCHANGED <<m_rom, m_code, m_label, m_lua, ret, png_file, saved, input, output>>

\* load_p8 on the document, once; output keeps the value m_current_section
\* held when the parse began
DocLoadP8 ==
    /\ p8_file.readable /\ ret.op = "none"
    /\ \E sec0 \in Sections :
         \E r \in {load_p8(CartNow, p8_file, sec0)} :
            /\ SetCart(r.cart)
            /\ ret' = [op |-> "load_p8", ok |-> r.ok]
            /\ output' = [op |-> "parse", sec0 |-> sec0]
    /\ UNCHANGED <<p8_file, png_file, saved, input>>

NextUnknown == WriteDoc \/ DocLoadP8

SpecUnknown == InitUnknown /\ [][NextUnknown]_vars

\* the sections of a document without those of an unknown marker
KnownSections(sections) == SelectSeq(sections, LAMBDA sec : sec[1] \notin UnknownMarkers)

\* C12: a document with sections of unknown markers loads, and the memory, the
\* script text and the label are those of the document without these
\* sections (marker and data lines)
C12_UnknownSectionsDiscarded ==
    (ret.op = "load_p8" /\ input.op = "doc" /\ output.op = "parse")
        => /\ ret.ok
           /\ CartNow = load_p8(EmptyCart,
                                File(DocText(input.prelude, KnownSections(input.sections))),
                                output.sec0).cart

\* a document with an unknown section of hexadecimal data between a __gfx__
\* and a __lua__ section has been loaded
C12_UnknownBetweenKnown ==
    /\ ret.op = "load_p8" /\ input.op = "doc" /\ output.op = "parse"
    /\ Len(input.sections) = 3
    /\ input.sections[1][1] = StrGfx
    /\ input.sections[2] = << <<95, 95, 102, 111, 111, 95, 95>>, <<102, 102, 10>> >>
    /\ input.sections[3][1] = StrLua
    /\ m_rom # Zeroed /\ m_code # <<>>

\* C14: the text between the header and the first section marker reaches
\* neither the script text, nor the memory, nor the label: the cart after the
\* load is the cart loaded from the document without that text
C14_PreludeIgnored ==
    (ret.op = "load_p8" /\ input.op = "doc" /\ output.op = "parse")
        => \A sec0 \in Sections :
             CartNow = load_p8(EmptyCart, File(DocText(<<>>, input.sections)), sec0).cart

(***************************************************************************)
(* SpecTrim: save_p8 on carts with bytes in chosen lines of the regions    *)
(***************************************************************************)
\* bytes in the gfx region (lines 0, 1, 64, 127, 0 and 3) and in the sprite
\* flags (lines 0, 1)
TrimPokesLow ==
    { Zeroed,
      (OffGfx :> 1),
      (OffGfx + 64 + 5 :> 16),
      (OffMap2 :> 255),
      (OffGfx + SizeofGfx - 1 :> 1),
      (OffGfx :> 1) @@ (OffGfx + 64 * 3 :> 2),
      (OffGfxProps :> 1),
      (OffGfxProps + SizeofGfxProps - 1 :> 1) }

\* bytes in the map (lines 0, 2, 31), in the sound effects (lines 0, 2, 63, 1
\* and 4) and in the songs (lines 0, 5, 63)
TrimPokesHigh ==
    { Zeroed,
      (OffMap + 127 :> 9),
      (OffMap + 128 * 2 :> 1),
      (OffMap + SizeofMap - 1 :> 1),
      (OffSfx + 64 :> 1),
      (OffSfx + SizeofSfxT * 2 + 3 :> 5),
      (OffSfx + SizeofSfx - 1 :> 1),
      (OffSfx + SizeofSfxT :> 1) @@ (OffSfx + SizeofSfxT * 4 :> 1),
      (OffSong :> 128),
      (OffSong + SizeofSongT * 5 + 1 :> 3),
      (OffSong + SizeofSong - 1 :> 1) }

TrimInputs == {[op |-> "trim", at |-> low @@ high] : low \in TrimPokesLow, high \in TrimPokesHigh}

InitTrim ==
    /\ InitCart
    /\ input \in TrimInputs
    /\ output = NoInput

\* the cart gets its bytes from a .js file, once
TrimLoadJs == input.op = "trim" /\ ret.op = "none" /\ LoadJs(JsCart(input.at))

NextTrim == TrimLoadJs \/ SaveP8

SpecTrim == InitTrim /\ [][NextTrim]_vars

\* the highest-indexed line of the region at off with a non-zero byte; -1
\* when every byte is zero
LastLine(rom, off, size, per) ==
    IF \A a \in off..(off + size - 1) : Rd(rom, a) = 0 THEN -1
    ELSE SetMax({n \in 0..((size - 1) \div per) :
                    \E a \in (off + per * n)..(off + per * n + per - 1) : Rd(rom, a) # 0})

\* the document text has no line that is the marker when last = -1; else it
\* has one, followed by the lines 0..last and then by a line that is no data
\* line (a blank line or the next marker)
Trimmed(text, marker, lines, last) ==
    LET at == {b \in LineStarts(text, 1) : HasAt(text, b, marker \o <<10>>)}
    IN IF last < 0 THEN at = {}
       ELSE /\ Cardinality(at) = 1
            /\ \A b \in at :
                 \A data \in {Concat(SubSeq(lines, 1, last + 1))} :
                    /\ HasAt(text, b + Len(marker) + 1, data)
                    /\ \A p \in {b + Len(marker) + 1 + Len(data)} :
                         \/ At(text, p) = 10
                         \/ MatchSectionLine(text, p) # 0

\* C13: the document save_p8 writes has, for each of the gfx, gff, map, sfx
\* and music regions, no section when every byte of the region is zero, and
\* else the marker followed by exactly the lines 0..L, L the highest-indexed
\* line with a non-zero byte
C13_SectionsTrimmed ==
    ret.op = "save_p8"
        => \A text \in {p8_file.data} :
             /\ Trimmed(text, StrGfx, [n \in 1..128 |-> GfxLine(m_rom, n - 1)],
                        LastLine(m_rom, OffGfx, SizeofGfx, 64))
             /\ Trimmed(text, StrGff,
                        [n \in 1..2 |-> HexLine(Bytes(m_rom, OffGfxProps + 128 * (n - 1), 128))],
                        LastLine(m_rom, OffGfxProps, SizeofGfxProps, 128))
             /\ Trimmed(text, StrMap,
                        [n \in 1..32 |-> HexLine(Bytes(m_rom, OffMap + 128 * (n - 1), 128))],
                        LastLine(m_rom, OffMap, SizeofMap, 128))
             /\ Trimmed(text, StrSfx, [n \in 1..64 |-> SfxLine(m_rom, n - 1)],
                        LastLine(m_rom, OffSfx, SizeofSfx, SizeofSfxT))
             /\ Trimmed(text, StrMus, [n \in 1..64 |-> MusicLine(m_rom, n - 1)],
                        LastLine(m_rom, OffSong, SizeofSong, SizeofSongT))

\* a cart with bytes in lines 0 and 3 of the graphics and in sound effects 1
\* and 4, and none in the map, has been saved
C13_GapLinesSaved ==
    /\ ret.op = "save_p8"
    /\ input.op = "trim"
    /\ DOMAIN m_rom = {OffGfx, OffGfx + 64 * 3, OffSfx + SizeofSfxT, OffSfx + SizeofSfxT * 4}

(***************************************************************************)
(* SpecJs: load_js and the engine resources it acquires                    *)
(***************************************************************************)
\* the most engine resources live before the call
MaxLiveBefore == 2

\* the lengths of the array literals: empty, shorter than the container, of
\* its size, longer
JsSizes == {0, 1, 2, 3, 100, OffCode + 1, SizeofMemory + 4, SizeofMemory + 5, SizeofMemory + 6}

\* the .js files: the ones that fail, and arrays of each length with an
\* element in the graphics, or in the graphics and the code
EngineJsFiles ==
    JsFiles
    \cup {JsFile(TRUE, TRUE, JsArray(size, [i \in {a \in at : a < size} |-> 369])) :
            size \in JsSizes, at \in {{0}, {0, 1, OffCode}}}

EngineInputs ==
    {[op |-> "js", file |-> file, before |-> before] :
        file \in EngineJsFiles, before \in 0..MaxLiveBefore}

InitJs ==
    /\ InitCart
    /\ input \in EngineInputs
    /\ output = NoInput

\* cart::load_js(filename), once; output keeps the count of live engine
\* resources at the return
EngineLoadJs ==
    /\ input.op = "js" /\ ret.op = "none"
    /\ \E r \in {load_js(CartNow, input.file)} :
        /\ SetCart(r.cart)
        /\ ret' = [op |-> "load_js", ok |-> r.ok]
    /\ output' = [op |-> "engine", live |-> load_js_live(input.file, input.before)]
    /\ UNCHANGED <<p8_file, png_file, saved, input>>

NextJs == EngineLoadJs

SpecJs == InitJs /\ [][NextJs]_vars

CarrierPixels == {<<v, 255 - v, (v + 64) % 256, (v * 3) % 256>> : v \in 0..255}

PixelInputs == {[op |-> "pixel", pixel |-> p, byte |-> b] : p \in CarrierPixels, b \in 0..255}

InitPixel ==
    /\ InitCart
    /\ input \in PixelInputs
    /\ output = NoInput

\* the loop body of save_png on the pixel, then that of load_png on the pixel
\* written
EmbedAndDecode ==
    /\ input.op = "pixel" /\ output.op = "none"
    /\ \E q \in {EmbedPixel(input.pixel, input.byte)} :
         output' = [op |-> "pixel", written |-> q, byte |-> DecodePixel(q)]
    /\ UNCHANGED <<m_rom, m_code, m_label, m_lua, ret, p8_file, png_file, saved, input>>

NextPixel == EmbedAndDecode

SpecPixel == InitPixel /\ [][NextPixel]_vars

\* C16: the pixel written holds bits 5-4 of the byte in the low 2 bits of red,
\* bits 3-2 in those of green, bits 1-0 in those of blue and bits 7-6 in those
\* of alpha, the upper 6 bits of each channel are the carrier's, and the
\* decoder's formula on the pixel written gives the byte
C16_PixelEmbeddingLossless ==
    output.op = "pixel"
        => /\ output.written[1] % 4 = (input.byte \div 16) % 4
           /\ output.written[2] % 4 = (input.byte \div 4) % 4
           /\ output.written[3] % 4 = input.byte % 4
           /\ output.written[4] % 4 = (input.byte \div 64) % 4
           /\ \A k \in 1..4 : output.written[k] \div 4 = input.pixel[k] \div 4
           /\ output.byte = input.byte

\* the byte 0xe4 (fields 3, 2, 1, 0) has been written into the carrier pixel
\* (255, 0, 63, 253) and read back
C16_AllFieldsDiffer ==
    /\ output.op = "pixel"
    /\ input.byte = 228
    /\ input.pixel = <<255, 0, 63, 253>>

=============================================================================
